---- MODULE Spec2Model ----
(***************************************************************************)
(* Model of routers/vector_router.py: the /vector/sync handler and its     *)
(* background task (_sync_database_background), /vector/health and         *)
(* /vector/chat.  The collaborators (Notion client, VectorDB, RAGService)  *)
(* are the environment: every call picks one of the outcomes the           *)
(* collaborator can produce.                                               *)
(*                                                                         *)
(* Python's None is modelled by the empty set: an Optional value is {} or  *)
(* a singleton {v}.  A dict whose keys may be missing is a record whose    *)
(* DOMAIN is the set of keys present.                                      *)
(***************************************************************************)
EXTENDS Integers, Sequences, FiniteSets, TLC

VARIABLES
    endpoint,             \* which request this behaviour serves
    notion_database_ids,  \* module global, line 40
    dbSize,               \* environment: number of pages in each Notion database
    collab,               \* environment: outcomes the collaborators can produce
    request,              \* SyncRequest body after validation
    hpc,                  \* position of the request handler
    response,             \* HTTP response of the handler
    background_tasks,     \* BackgroundTasks queue of the request
    runner,               \* index of the background task the framework runs
    task,                 \* locals of each _sync_database_background call
    notionQueries,        \* client.databases.query calls per task
    blockLists,           \* notion.blocks.children.list calls per task
    storeCalls,           \* arguments of every db.store_notion_page call
    healthEnv,            \* environment of /health: get_stats and generate_embedding
    answer                \* environment of /chat: rag.answer_question outcome

vars == <<endpoint, notion_database_ids, dbSize, collab, request, hpc, response,
          background_tasks, runner, task, notionQueries, blockLists, storeCalls,
          healthEnv, answer>>

----------------------------------------------------------------------------
(* Bounds *)

MaxPages == 3        \* pages per Notion database in the exhaustive configurations
MaxChunks == 2       \* largest chunks_stored a store result reports
MaxSources == 2      \* sources in a RAG answer
MaxDim == 2          \* largest probe embedding length

(* Program constants *)

PageSizeCap == 100       \* min(100, ...) at line 121
DefaultPageLimit == 100  \* SyncRequest.page_limit default, line 48

----------------------------------------------------------------------------
(* Python helpers *)

NoneVal == {}
Some(v) == {v}
IsNone(o) == o = {}
Val(o) == CHOOSE v \in o : TRUE

Min(a, b) == IF a <= b THEN a ELSE b

\* truthiness of an Optional[int]: None and 0 are falsy
TruthyInt(o) == ~IsNone(o) /\ Val(o) # 0

\* truthiness of an Optional[str]: None and "" are falsy
TruthyStr(o) == ~IsNone(o) /\ Val(o) # ""

HasKey(d, k) == k \in DOMAIN d

RECURSIVE SelectSeqMap(_, _, _)
\* [f(x) for x in s if p(x)] with p, f given as functions over the elements
SelectSeqMap(s, p, f) ==
    IF s = <<>> THEN <<>>
    ELSE (IF p[Head(s)] THEN <<f[Head(s)]>> ELSE <<>>) \o SelectSeqMap(Tail(s), p, f)

----------------------------------------------------------------------------
(* SyncRequest, lines 46-48 *)

\* body: record with optional keys force_update, page_limit (page_limit may be null)
SyncRequest(body) ==
    [force_update |-> IF HasKey(body, "force_update") THEN body.force_update ELSE TRUE,
     page_limit   |-> IF HasKey(body, "page_limit") THEN body.page_limit
                      ELSE Some(DefaultPageLimit)]

----------------------------------------------------------------------------
(* Environment: the Notion database, its blocks, the store *)

\* pages of a database are identified by their position 1..N
PageDict(p) == [id |-> p, content |-> NoneVal]

\* databases.query: the slice of at most n pages starting at position start
QueryResponse(N, start, n) ==
    LET last == start + n - 1 IN
    [results     |-> [j \in 1..n |-> PageDict(start + j - 1)],
     has_more    |-> last < N,
     next_cursor |-> IF last < N THEN Some(last + 1) ELSE NoneVal]

\* number of pages a query for page_size pages from position start may return
ReturnCounts(N, start, page_size, short) ==
    LET avail == IF N - start + 1 > 0 THEN N - start + 1 ELSE 0
        full  == Min(page_size, avail) IN
    IF short /\ full > 1 THEN {1, full - 1, full} ELSE {full}

\* blocks.children.list results of a page: page p has p % 3 blocks
BlocksOf(p) == [j \in 1..(p % 3) |-> [type |-> "paragraph", page |-> p, n |-> j]]

\* notion_utils.extract_block_content
extract_block_content(block) == [type |-> block.type, text |-> <<block.page, block.n>>]

\* results db.store_notion_page can return; "raise" stands for an exception
StoreOutcomes ==
    {[kind |-> "raise"]}
    \cup {[kind |-> "result", result |-> [status |-> "success", chunks_stored |-> c]] :
            c \in 1..MaxChunks}
    \cup {[kind |-> "result", result |-> [status |-> "success"]],
          [kind |-> "result", result |-> [status |-> "skipped"]],
          [kind |-> "result", result |-> [status |-> "error"]]}

SkipOnly == {[kind |-> "result", result |-> [status |-> "skipped"]]}

----------------------------------------------------------------------------
(* Locals of _sync_database_background *)

ZeroResults == [success |-> 0, skipped |-> 0, errors |-> 0, total_chunks |-> 0]

NewTask ==
    [pc |-> "scheduled", ended |-> "no", fatal |-> "no",
     all_pages |-> <<>>, has_more |-> TRUE, next_cursor |-> NoneVal,
     pages_processed |-> 0, sync_results |-> ZeroResults, i |-> 1,
     outcomes |-> <<>>]

\* add_task called without the request's force_update
TaskArgsForceDefault(database_id, req) ==
    [database_id |-> database_id, force_update |-> TRUE, page_limit |-> req.page_limit]

\* arguments given to add_task, lines 83-90
TaskArgs(database_id, req) ==
    [database_id |-> database_id, force_update |-> req.force_update,
     page_limit |-> req.page_limit]

\* loop condition with an inclusive comparison
LoopCondInclusive(t, page_limit) ==
    t.has_more /\ (IF IsNone(page_limit) THEN TRUE
                   ELSE t.pages_processed <= Val(page_limit))

\* loop condition, line 118
LoopCond(t, page_limit) ==
    t.has_more /\ (IF IsNone(page_limit) THEN TRUE
                   ELSE t.pages_processed < Val(page_limit))

\* page_size that ignores the remaining quota
PageSizeIgnoresQuota(t, page_limit) == PageSizeCap

\* page_size, line 121
PageSize(t, page_limit) ==
    Min(PageSizeCap,
        IF TruthyInt(page_limit) THEN Val(page_limit) - t.pages_processed
        ELSE PageSizeCap)

\* break test, line 134
BreakCond(processed, page_limit) ==
    TruthyInt(page_limit) /\ processed >= Val(page_limit)

\* no outer except: the exception leaves the coroutine
HandleFatalEscapes(t, what) == [t EXCEPT !.pc = "raised", !.fatal = what]

\* lines 174-175: the outer except catches, logs, and the coroutine returns
HandleFatal(t, what) == [t EXCEPT !.pc = "failed", !.fatal = what]

\* lines 162-170: classification of one store outcome
Classify(sr, o) ==
    IF o.kind = "raise"
    THEN [sr EXCEPT !.errors = @ + 1]
    ELSE IF o.result.status = "success"
         THEN IF HasKey(o.result, "chunks_stored")
              THEN [sr EXCEPT !.success = @ + 1,
                              !.total_chunks = @ + o.result.chunks_stored]
              \* line 163 has run when line 164 raises KeyError, caught at 168
              ELSE [sr EXCEPT !.success = @ + 1, !.errors = @ + 1]
         ELSE IF o.result.status = "skipped"
              THEN [sr EXCEPT !.skipped = @ + 1]
              ELSE sr

----------------------------------------------------------------------------
(* /health and /chat, pure parts *)

ModelName == "gemini"            \* rag.model_name
EmbeddingModelName == "minilm"   \* db.embedding_model_name

\* health check that does not exercise the embedding path
HealthResponseStatsOnly(env) ==
    IF env.stats.kind = "raise"
    THEN [status_code |-> 503, detail |-> "Service unavailable"]
    ELSE [status_code |-> 200,
          status |-> "healthy",
          vector_db |-> "connected",
          embedding_model |-> EmbeddingModelName,
          embedding_dimension |-> 0,
          google_ai_model |-> ModelName,
          total_chunks |-> IF HasKey(env.stats.value, "total_chunks")
                           THEN env.stats.value.total_chunks ELSE 0,
          unique_pages |-> IF HasKey(env.stats.value, "unique_pages")
                           THEN env.stats.value.unique_pages ELSE 0]

\* lines 183-202
HealthResponse(env) ==
    IF env.stats.kind = "raise" \/ env.embedding.kind = "raise"
       \/ IsNone(env.embedding.value)      \* len(None) raises TypeError, line 194
    THEN [status_code |-> 503, detail |-> "Service unavailable"]
    ELSE [status_code |-> 200,
          status |-> "healthy",
          vector_db |-> "connected",
          embedding_model |-> EmbeddingModelName,
          embedding_dimension |-> Len(Val(env.embedding.value)),
          google_ai_model |-> ModelName,
          total_chunks |-> IF HasKey(env.stats.value, "total_chunks")
                           THEN env.stats.value.total_chunks ELSE 0,
          unique_pages |-> IF HasKey(env.stats.value, "unique_pages")
                           THEN env.stats.value.unique_pages ELSE 0]

\* source.get("page_url") of one source dict
PageUrl(source) == IF HasKey(source, "page_url") THEN source.page_url ELSE NoneVal

\* lines 227-230
SourceUrls(sources) ==
    SelectSeqMap(sources,
                 [x \in {sources[j] : j \in 1..Len(sources)} |-> TruthyStr(PageUrl(x))],
                 [x \in {sources[j] : j \in 1..Len(sources)} |-> Val(PageUrl(x))])

\* line 226: answer.get("sources") is truthy
SourcesAvailable(ans) == HasKey(ans, "sources") /\ ans.sources # <<>>

\* lines 211-236
ChatResponse(question, ans) ==
    IF ans.kind = "raise"
    THEN [status_code |-> 500, detail |-> "error"]
    ELSE LET a == ans.value
             base == [status_code |-> 200,
                      question |-> question,
                      answer |-> a.answer,
                      context_used |-> a.context_used,
                      sources_count |-> IF HasKey(a, "sources") THEN Len(a.sources) ELSE 0,
                      model |-> IF HasKey(a, "model_used") THEN Some(a.model_used)
                                ELSE NoneVal]
         IN IF SourcesAvailable(a)
            THEN base @@ [source_urls |-> SourceUrls(a.sources)]
            ELSE base

----------------------------------------------------------------------------
(* Inputs *)

DbNames == {"db1", "db2"}

NoResponse == [kind |-> "none"]

FullCollab == [store |-> StoreOutcomes, query_raises |-> TRUE, blocks_raise |-> TRUE,
               short |-> TRUE]
CalmCollab == [store |-> SkipOnly, query_raises |-> FALSE, blocks_raise |-> FALSE,
               short |-> FALSE]

\* an empty JSON body {} takes both defaults
SmallBodies ==
    {[force_update |-> f, page_limit |-> l] :
        f \in BOOLEAN, l \in {NoneVal} \cup {Some(n) : n \in (-1)..(MaxPages + 1)}}
    \cup {[page_limit |-> Some(1)], [force_update |-> FALSE]}

SmallSizes == {[d \in DbNames |-> IF d = "db1" THEN n ELSE m] :
                 n \in 0..MaxPages, m \in 0..1}

\* the example of the specification: page_limit 5 against 12 pages
ExampleBodies == {[force_update |-> f, page_limit |-> Some(5)] : f \in BOOLEAN}
ExampleSizes == {[d \in DbNames |-> 12]}

\* page limits and database sizes around and above the page size cap
LargeBodies ==
    {[force_update |-> TRUE, page_limit |-> l] :
        l \in {NoneVal, Some(PageSizeCap), Some(PageSizeCap + 1), Some(2 * PageSizeCap + 5)}}
    \cup {[force_update |-> FALSE]}
LargeSizes == {[d \in DbNames |-> n] :
                 n \in {PageSizeCap - 1, PageSizeCap, PageSizeCap + 1, 2 * PageSizeCap + 30}}

SourceDicts == {[page_url |-> u] : u \in {NoneVal, Some(""), Some("u1"), Some("u2")}}
               \cup {[title |-> "t"]}

SourceLists == UNION {[1..n -> SourceDicts] : n \in 0..MaxSources}

Answers ==
    {[kind |-> "raise"]}
    \cup {[kind |-> "value",
           value |-> [answer |-> "a", context_used |-> c, model_used |-> ModelName,
                      sources |-> s]] : c \in BOOLEAN, s \in SourceLists}
    \cup {[kind |-> "value", value |-> [answer |-> "a", context_used |-> FALSE]]}

StatsDicts ==
    {[total_chunks |-> c, unique_pages |-> u] : c \in 0..MaxChunks, u \in 0..1}
    \cup {[total_chunks |-> 1], [unique_pages |-> 1]}

HealthEnvs ==
    {[stats |-> s, embedding |-> e] :
        s \in {[kind |-> "raise"]} \cup {[kind |-> "value", value |-> v] : v \in StatsDicts},
        e \in {[kind |-> "raise"], [kind |-> "value", value |-> NoneVal]}
              \cup {[kind |-> "value", value |-> Some([j \in 1..n |-> 0])] : n \in 0..MaxDim}}

NoHealthEnv == [stats |-> [kind |-> "raise"], embedding |-> [kind |-> "raise"]]
NoAnswer == [kind |-> "raise"]
NoRequest == [force_update |-> TRUE, page_limit |-> NoneVal]

InitIdle ==
    /\ hpc = "start"
    /\ response = NoResponse
    /\ background_tasks = <<>>
    /\ runner = 1
    /\ task = <<>>
    /\ storeCalls = <<>>
    /\ notionQueries = [k \in 1..Len(notion_database_ids) |-> 0]
    /\ blockLists = [k \in 1..Len(notion_database_ids) |-> 0]

InitSync ==
    /\ endpoint = "sync"
    /\ \/ /\ notion_database_ids \in {<<>>, <<"db1">>, <<"db1", "db2">>, <<"db2", "db2">>}
          /\ dbSize \in SmallSizes
          /\ collab = FullCollab
          /\ \E body \in SmallBodies : request = SyncRequest(body)
       \/ /\ notion_database_ids = <<"db1">>
          /\ dbSize \in ExampleSizes
          /\ collab = FullCollab
          /\ \E body \in ExampleBodies : request = SyncRequest(body)
       \/ /\ notion_database_ids = <<"db1">>
          /\ dbSize \in LargeSizes
          /\ collab = CalmCollab
          /\ \E body \in LargeBodies : request = SyncRequest(body)
    /\ healthEnv = NoHealthEnv
    /\ answer = NoAnswer

InitHealth ==
    /\ endpoint = "health"
    /\ notion_database_ids = <<>>
    /\ dbSize = [d \in DbNames |-> 0]
    /\ collab = CalmCollab
    /\ request = NoRequest
    /\ healthEnv \in HealthEnvs
    /\ answer = NoAnswer

InitChat ==
    /\ endpoint = "chat"
    /\ notion_database_ids = <<>>
    /\ dbSize = [d \in DbNames |-> 0]
    /\ collab = CalmCollab
    /\ request = NoRequest
    /\ healthEnv = NoHealthEnv
    /\ answer \in Answers

Init == (InitSync \/ InitHealth \/ InitChat) /\ InitIdle

----------------------------------------------------------------------------
(* POST /vector/sync, lines 72-99 *)

\* the handler awaits the sync itself: the first query is issued before it returns
ScheduleTasksInline ==
    /\ endpoint = "sync" /\ hpc = "start"
    /\ background_tasks' = [k \in 1..Len(notion_database_ids) |->
                               TaskArgs(notion_database_ids[k], request)]
    /\ task' = [k \in 1..Len(notion_database_ids) |-> [NewTask EXCEPT !.pc = "paginate"]]
    /\ notionQueries' = [k \in 1..Len(notion_database_ids) |-> 1]
    /\ hpc' = "scheduled"
    /\ UNCHANGED <<endpoint, notion_database_ids, dbSize, collab, request, response,
                   runner, blockLists, storeCalls, healthEnv, answer>>

\* lines 82-90: one add_task per entry of notion_database_ids
ScheduleTasks ==
    /\ endpoint = "sync" /\ hpc = "start"
    /\ background_tasks' = [k \in 1..Len(notion_database_ids) |->
                               TaskArgs(notion_database_ids[k], request)]
    /\ task' = [k \in 1..Len(notion_database_ids) |-> NewTask]
    /\ hpc' = "scheduled"
    /\ UNCHANGED <<endpoint, notion_database_ids, dbSize, collab, request, response,
                   runner, notionQueries, blockLists, storeCalls, healthEnv, answer>>

\* lines 92-96
ReturnAck ==
    /\ endpoint = "sync" /\ hpc = "scheduled"
    /\ response' = [status_code |-> 200, status |-> "started", message |-> "notion synced",
                    force_update |-> request.force_update]
    /\ hpc' = "returned"
    /\ UNCHANGED <<endpoint, notion_database_ids, dbSize, collab, request,
                   background_tasks, runner, task, notionQueries, blockLists,
                   storeCalls, healthEnv, answer>>

----------------------------------------------------------------------------
(* _sync_database_background, lines 101-175.  The framework runs the queued  *)
(* tasks one after the other once the response has been sent.                *)

Running(k) ==
    /\ endpoint = "sync" /\ hpc = "returned"
    /\ k = runner /\ k \in 1..Len(background_tasks)

TaskUnchanged == UNCHANGED <<endpoint, notion_database_ids, dbSize, collab, request, hpc,
                             response, background_tasks, healthEnv, answer>>

\* lines 138-146: pagination is over, the counters are created
StartSyncing(t) == [t EXCEPT !.pc = "sync", !.sync_results = ZeroResults, !.i = 1]

\* lines 110-116
StartTask(k) ==
    /\ Running(k) /\ task[k].pc = "scheduled"
    /\ task' = [task EXCEPT ![k] = [NewTask EXCEPT !.pc = "paginate"]]
    /\ TaskUnchanged
    /\ UNCHANGED <<runner, notionQueries, blockLists, storeCalls>>

\* lines 119-135: one iteration of the pagination loop, the query succeeds
Query(k) ==
    LET a == background_tasks[k]
        t == task[k]
        start == IF IsNone(t.next_cursor) THEN 1 ELSE Val(t.next_cursor)
    IN
    /\ Running(k) /\ t.pc = "paginate" /\ LoopCond(t, a.page_limit)
    /\ \E n \in ReturnCounts(dbSize[a.database_id], start, PageSize(t, a.page_limit),
                             collab.short) :
          LET resp == QueryResponse(dbSize[a.database_id], start, n)
              t2 == [t EXCEPT !.all_pages = @ \o resp.results,
                              !.has_more = resp.has_more,
                              !.next_cursor = resp.next_cursor,
                              !.pages_processed = @ + Len(resp.results)]
          IN task' = [task EXCEPT ![k] =
                        IF BreakCond(t2.pages_processed, a.page_limit)
                        THEN StartSyncing(t2) ELSE t2]
    /\ notionQueries' = [notionQueries EXCEPT ![k] = @ + 1]
    /\ TaskUnchanged
    /\ UNCHANGED <<runner, blockLists, storeCalls>>

\* line 126 raises: caught by the outer except, line 174
QueryRaises(k) ==
    LET a == background_tasks[k]
        t == task[k]
    IN
    /\ Running(k) /\ t.pc = "paginate" /\ LoopCond(t, a.page_limit)
    /\ collab.query_raises
    /\ task' = [task EXCEPT ![k] = HandleFatal(t, "query")]
    /\ notionQueries' = [notionQueries EXCEPT ![k] = @ + 1]
    /\ TaskUnchanged
    /\ UNCHANGED <<runner, blockLists, storeCalls>>

\* line 118: the loop condition is false
EndPagination(k) ==
    /\ Running(k) /\ task[k].pc = "paginate"
    /\ ~LoopCond(task[k], background_tasks[k].page_limit)
    /\ task' = [task EXCEPT ![k] = StartSyncing(task[k])]
    /\ TaskUnchanged
    /\ UNCHANGED <<runner, notionQueries, blockLists, storeCalls>>

\* lines 149-153: list the blocks of page i and extract their content
ListBlocks(k) ==
    LET t == task[k]
        page == t.all_pages[t.i]
        blocks == BlocksOf(page.id)
        pageContent == [j \in 1..Len(blocks) |-> extract_block_content(blocks[j])]
    IN
    /\ Running(k) /\ t.pc = "sync" /\ t.i <= Len(t.all_pages)
    /\ task' = [task EXCEPT ![k] =
                  [t EXCEPT !.pc = "store", !.all_pages[t.i].content = Some(pageContent)]]
    /\ blockLists' = [blockLists EXCEPT ![k] = @ + 1]
    /\ TaskUnchanged
    /\ UNCHANGED <<runner, notionQueries, storeCalls>>

\* line 150 or line 152 raises outside the inner try: caught at line 174
ListBlocksRaises(k) ==
    LET t == task[k] IN
    /\ Running(k) /\ t.pc = "sync" /\ t.i <= Len(t.all_pages)
    /\ collab.blocks_raise
    /\ \E what \in {"list"} \cup (IF BlocksOf(t.all_pages[t.i].id) # <<>>
                                  THEN {"extract"} ELSE {}) :
          task' = [task EXCEPT ![k] = HandleFatal(t, what)]
    /\ blockLists' = [blockLists EXCEPT ![k] = @ + 1]
    /\ TaskUnchanged
    /\ UNCHANGED <<runner, notionQueries, storeCalls>>

\* lines 154-170: store page i and classify the outcome
StorePage(k) ==
    LET a == background_tasks[k]
        t == task[k]
        page == t.all_pages[t.i]
    IN
    /\ Running(k) /\ t.pc = "store"
    /\ \E o \in collab.store :
          task' = [task EXCEPT ![k] =
                     [t EXCEPT !.pc = "sync",
                               !.sync_results = Classify(@, o),
                               !.outcomes = Append(@, o),
                               !.i = @ + 1]]
    /\ storeCalls' = Append(storeCalls,
                            [task |-> k, page_id |-> page.id,
                             has_content |-> ~IsNone(page.content),
                             database_id |-> a.database_id,
                             force_update |-> a.force_update])
    /\ TaskUnchanged
    /\ UNCHANGED <<runner, notionQueries, blockLists>>

\* line 172: every page has been through the loop, the counters are logged
LogCompleted(k) ==
    LET t == task[k] IN
    /\ Running(k) /\ t.pc = "sync" /\ t.i > Len(t.all_pages)
    /\ task' = [task EXCEPT ![k] = [t EXCEPT !.pc = "completed"]]
    /\ TaskUnchanged
    /\ UNCHANGED <<runner, notionQueries, blockLists, storeCalls>>

\* the coroutine returns: its locals are gone, the framework runs the next task
ReturnTask(k) ==
    LET t == task[k] IN
    /\ Running(k) /\ t.pc \in {"completed", "failed"}
    /\ task' = [task EXCEPT ![k] = [NewTask EXCEPT !.pc = "returned", !.ended = t.pc,
                                                   !.fatal = t.fatal]]
    /\ runner' = runner + 1
    /\ TaskUnchanged
    /\ UNCHANGED <<notionQueries, blockLists, storeCalls>>

----------------------------------------------------------------------------
(* GET /vector/health, lines 177-202, and POST /vector/chat, lines 205-236 *)

HandlerUnchanged == UNCHANGED <<endpoint, notion_database_ids, dbSize, collab, request,
                                background_tasks, runner, task, notionQueries,
                                blockLists, storeCalls, healthEnv, answer>>

vector_health_check ==
    /\ endpoint = "health" /\ hpc = "start"
    /\ response' = HealthResponse(healthEnv)
    /\ hpc' = "returned"
    /\ HandlerUnchanged

Question == "q"

chat_with_knowledge_base ==
    /\ endpoint = "chat" /\ hpc = "start"
    /\ response' = ChatResponse(Question, answer)
    /\ hpc' = "returned"
    /\ HandlerUnchanged

----------------------------------------------------------------------------

Next ==
    \/ ScheduleTasks
    \/ ReturnAck
    \/ \E k \in 1..Len(notion_database_ids) : StartTask(k)
    \/ \E k \in 1..Len(notion_database_ids) : Query(k)
    \/ \E k \in 1..Len(notion_database_ids) : QueryRaises(k)
    \/ \E k \in 1..Len(notion_database_ids) : EndPagination(k)
    \/ \E k \in 1..Len(notion_database_ids) : ListBlocks(k)
    \/ \E k \in 1..Len(notion_database_ids) : ListBlocksRaises(k)
    \/ \E k \in 1..Len(notion_database_ids) : StorePage(k)
    \/ \E k \in 1..Len(notion_database_ids) : LogCompleted(k)
    \/ \E k \in 1..Len(notion_database_ids) : ReturnTask(k)
    \/ vector_health_check
    \/ chat_with_knowledge_base

Spec == Init /\ [][Next]_vars

----------------------------------------------------------------------------
(* Properties *)

Tasks == DOMAIN task

Limit(k) == background_tasks[k].page_limit
Pages(k) == dbSize[background_tasks[k].database_id]

\* the pagination loop of task k has been left normally
PaginationDone(k) ==
    \/ task[k].pc \in {"sync", "store", "completed"}
    \/ task[k].pc = "failed" /\ task[k].fatal \in {"list", "extract"}

StoreCallsOf(k) == {j \in 1..Len(storeCalls) : storeCalls[j].task = k}

NoCollaboratorCall(k) ==
    notionQueries[k] = 0 /\ blockLists[k] = 0 /\ StoreCallsOf(k) = {}

\* C1: with page_limit L >= 1 against N pages the pagination loop never holds
\* more than L pages, and once it is over it holds exactly min(L, N) pages.
C1_ExactlyMinLimitPages ==
    \A k \in Tasks :
        (~IsNone(Limit(k)) /\ Val(Limit(k)) >= 1) =>
            /\ Len(task[k].all_pages) <= Val(Limit(k))
            /\ PaginationDone(k) =>
                  /\ Len(task[k].all_pages) = Min(Val(Limit(k)), Pages(k))
                  /\ \A j \in 1..Len(task[k].all_pages) : task[k].all_pages[j].id = j

\* a limit above the page size cap, below the database size, reached in three queries
C1_Witness ==
    \E k \in Tasks :
        /\ ~IsNone(Limit(k)) /\ Val(Limit(k)) > 2 * PageSizeCap
        /\ Pages(k) > Val(Limit(k))
        /\ task[k].pc = "completed"
        /\ Len(task[k].all_pages) = Val(Limit(k))
        /\ notionQueries[k] = 3

\* C5: as long as no acknowledgment has been returned no background task has
\* started and no query, block listing or store call has been made; the handler
\* returns {status: "started"} with the request's force_update.
C5_AckBeforeAnyWork ==
    endpoint = "sync" =>
        /\ hpc # "returned" =>
              /\ response = NoResponse
              /\ \A k \in Tasks : task[k].pc = "scheduled" /\ NoCollaboratorCall(k)
              /\ storeCalls = <<>>
        /\ hpc = "returned" =>
              /\ response.status_code = 200
              /\ response.status = "started"
              /\ response.force_update = request.force_update

\* the acknowledgment is out, two tasks are queued over non-empty databases, nothing ran
C5_Witness ==
    /\ endpoint = "sync" /\ hpc = "returned" /\ response.status = "started"
    /\ Len(background_tasks) = 2
    /\ \A k \in Tasks : task[k].pc = "scheduled" /\ NoCollaboratorCall(k) /\ Pages(k) > 0

\* C6: every store call carries the force_update of the request and the database
\* id its task was scheduled for, and a task with page_limit L >= 0 makes at most
\* L store calls.
C6_StoreCallArguments ==
    /\ \A j \in 1..Len(storeCalls) :
          /\ storeCalls[j].force_update = request.force_update
          /\ storeCalls[j].database_id = notion_database_ids[storeCalls[j].task]
    /\ \A k \in Tasks :
          (~IsNone(Limit(k)) /\ Val(Limit(k)) >= 0) =>
              Cardinality(StoreCallsOf(k)) <= Val(Limit(k))

\* force_update=false, page_limit=5, 12 pages: five store calls, all with force_update false
C6_Witness ==
    /\ endpoint = "sync" /\ request = [force_update |-> FALSE, page_limit |-> Some(5)]
    /\ \E k \in Tasks :
          /\ Pages(k) = 12 /\ task[k].pc = "completed"
          /\ Cardinality(StoreCallsOf(k)) = 5
          /\ \A j \in StoreCallsOf(k) : ~storeCalls[j].force_update

\* C7: /health answers 503 without a healthy payload whenever get_stats or the
\* probe embedding raises, and answers "healthy" only when both succeeded.
C7_HealthUnavailableOnFailure ==
    (endpoint = "health" /\ hpc = "returned") =>
        /\ (healthEnv.stats.kind = "raise" \/ healthEnv.embedding.kind = "raise") =>
              /\ response.status_code = 503
              /\ ~HasKey(response, "status")
        /\ response.status_code \in {200, 503}
        /\ response.status_code = 200 =>
              /\ response.status = "healthy"
              /\ healthEnv.stats.kind = "value"
              /\ healthEnv.embedding.kind = "value"

\* the stats call succeeded, the probe embedding raised, the answer is 503
C7_Witness ==
    /\ endpoint = "health" /\ hpc = "returned"
    /\ healthEnv.stats.kind = "value" /\ healthEnv.embedding.kind = "raise"
    /\ response.status_code = 503

C8_ZeroLimit ==
    \A k \in Tasks :
        Limit(k) = Some(0) =>
            /\ NoCollaboratorCall(k)
            /\ task[k].all_pages = <<>>
            /\ task[k].pc # "failed" /\ task[k].ended # "failed"
            /\ task[k].pc = "completed" => task[k].sync_results = ZeroResults

C8_NoQueryOnceSatisfied ==
    \A k \in Tasks :
        (/\ k \in DOMAIN task'
         /\ task[k].pc \notin {"scheduled", "returned"}
         /\ ~IsNone(Limit(k))
         /\ Len(task[k].all_pages) >= Val(Limit(k)))
        => notionQueries'[k] = notionQueries[k]

\* C8: a task with page_limit 0 makes no query, no block listing and no store call
\* and completes with all counters at zero; and no query is issued from a state in
\* which the collected pages have reached page_limit.
C8_NothingFetchedWhenSatisfied == [](C8_ZeroLimit) /\ [][C8_NoQueryOnceSatisfied]_vars

\* page_limit 0 against a non-empty database: completed, nothing called
C8_Witness ==
    \E k \in Tasks :
        /\ Limit(k) = Some(0) /\ Pages(k) > 0
        /\ task[k].pc = "completed" /\ task[k].sync_results = ZeroResults
        /\ NoCollaboratorCall(k)

C9_OneTaskPerDatabase ==
    (endpoint = "sync" /\ hpc # "start") =>
        /\ Len(background_tasks) = Len(notion_database_ids)
        /\ \A k \in 1..Len(background_tasks) :
              background_tasks[k] = [database_id |-> notion_database_ids[k],
                                     force_update |-> request.force_update,
                                     page_limit |-> request.page_limit]

C9_FailureConfined ==
    /\ \A k \in Tasks :
          /\ task[k].fatal # "no" =>
                \/ task[k].pc = "failed"
                \/ task[k].pc = "returned" /\ task[k].ended = "failed"
          /\ task[k].pc = "returned" => runner > k
          /\ (k < runner) => task[k].pc = "returned"
          /\ (k > runner) => task[k].pc = "scheduled"
    /\ runner \in 1..(Len(notion_database_ids) + 1)

\* a step changes the locals of the running task only
C9_LocalsIsolated ==
    \A k \in Tasks :
        (k \in DOMAIN task' /\ task'[k] # task[k]) =>
            /\ k = runner
            /\ \A j \in Tasks \ {k} : task'[j] = task[j]

\* C9: a request queues exactly one task per configured database id; a fatal
\* failure of a task is caught inside it, so the framework goes on to the next
\* task; a step of one task changes no other task's locals.
C9_TasksIndependent ==
    [](C9_OneTaskPerDatabase /\ C9_FailureConfined) /\ [][C9_LocalsIsolated]_vars

\* the first task died in its pagination query, the second ran to completion over pages
C9_Witness ==
    /\ Len(background_tasks) = 2
    /\ task[1].pc = "returned" /\ task[1].ended = "failed" /\ task[1].fatal = "query"
    /\ task[2].pc = "completed" /\ Len(task[2].all_pages) > 0
    /\ task[2].sync_results.success > 0

----------------------------------------------------------------------------
(* Statements the code does not satisfy *)

IsRaise(o) == o.kind = "raise"
HasStatus(o, st) == o.kind = "result" /\ o.result.status = st

CountOutcomes(outs, P(_)) == Cardinality({j \in 1..Len(outs) : P(outs[j])})

IsSuccess(o) == HasStatus(o, "success")
IsSkipped(o) == HasStatus(o, "skipped")

RECURSIVE ChunksReported(_)
\* sum of chunks_stored over the success results that report it
ChunksReported(outs) ==
    IF outs = <<>> THEN 0
    ELSE (IF IsSuccess(Head(outs)) /\ HasKey(Head(outs).result, "chunks_stored")
          THEN Head(outs).result.chunks_stored ELSE 0) + ChunksReported(Tail(outs))

TaskOver(k) == task[k].pc \in {"completed", "failed"}

\* C2: a page whose store call raises adds to the error counter only (success,
\* skipped and total_chunks count result pages alone, errors counts at least the
\* raising pages), and every page after it in the fetched list is still
\* submitted to the store by the time the task is over.
C2_StoreRaiseDoesNotHalt ==
    \A k \in Tasks :
        LET t == task[k] IN
        /\ t.sync_results.success = CountOutcomes(t.outcomes, IsSuccess)
        /\ t.sync_results.skipped = CountOutcomes(t.outcomes, IsSkipped)
        /\ t.sync_results.total_chunks = ChunksReported(t.outcomes)
        /\ t.sync_results.errors >= CountOutcomes(t.outcomes, IsRaise)
        /\ (TaskOver(k) /\ CountOutcomes(t.outcomes, IsRaise) > 0) =>
              Len(t.outcomes) = Len(t.all_pages)

\* C3: no failure of a per-page step aborts the task: when a task whose
\* pagination succeeded is over, it has completed and every fetched page has
\* had its blocks listed and has been through the loop.
C3_BadPageNeverAbortsBatch ==
    \A k \in Tasks :
        (TaskOver(k) /\ PaginationDone(k)) =>
            /\ task[k].pc = "completed"
            /\ task[k].i = Len(task[k].all_pages) + 1
            /\ blockLists[k] = Len(task[k].all_pages)

AnswerSources == IF HasKey(answer.value, "sources") THEN answer.value.sources ELSE <<>>

\* positions of the sources with a non-empty page_url
WithUrl == {j \in 1..Len(AnswerSources) :
              /\ HasKey(AnswerSources[j], "page_url")
              /\ AnswerSources[j].page_url \notin {NoneVal, Some("")}}

\* C4: source_urls is omitted when no source has a non-empty page_url; otherwise
\* it holds exactly the non-empty page_url values, in order.
C4_SourceUrlsOmittedWithoutUrl ==
    (endpoint = "chat" /\ hpc = "returned" /\ response.status_code = 200) =>
        IF WithUrl = {}
        THEN ~HasKey(response, "source_urls")
        ELSE /\ HasKey(response, "source_urls")
             /\ Len(response.source_urls) = Cardinality(WithUrl)
             /\ \A j \in WithUrl :
                   response.source_urls[1 + Cardinality({i \in WithUrl : i < j})]
                       = Val(AnswerSources[j].page_url)

\* C10: when the task logs its final counters, success + skipped + errors is the
\* number of pages fetched, and total_chunks is the sum of chunks_stored over the
\* success pages.
C10_EveryPageCountedOnce ==
    \A k \in Tasks :
        task[k].pc = "completed" =>
            /\ task[k].sync_results.success + task[k].sync_results.skipped
                 + task[k].sync_results.errors = Len(task[k].all_pages)
            /\ task[k].sync_results.total_chunks = ChunksReported(task[k].outcomes)

====
